---- MODULE Spec2Model ----
(***************************************************************************)
(* A model of jupyterhub/src/jupyterhub_config.py, the JupyterHub          *)
(* configuration script of the workshop spawner.                           *)
(*                                                                         *)
(* Python strings that the script inspects character by character (size    *)
(* specifications, image names, URLs, host names) are sequences of         *)
(* one-character strings.  Python integers are unbounded: they are signed  *)
(* magnitudes, the magnitude a little-endian sequence of limbs.            *)
(***************************************************************************)
EXTENDS Integers, Sequences, FiniteSets, TLC

VARIABLES
    size,        \* the argument of a call of convert_size_to_bytes
    sizeOut,     \* the outcome of that call
    name,        \* the argument of a call of resolve_image_name
    resolveOut,  \* the outcome of that call
    streams,     \* the image streams of the namespace, by name
    apiLog,      \* the image stream lookups made, each with its response
    c,           \* the configuration object
    target,      \* the target of the call a patch intercepts
    call,        \* the intercepted call: the patched method and its arguments
    passed,      \* what the patch handed to add_route, or returned from get_env
    environ,     \* os.environ
    pc,          \* the statement of the script to run next
    error,       \* the exception that ended the script, and where
    routes,      \* the routes of the namespace, as the API listed them
    files,       \* the configuration files found to exist, each with its content
    probed,      \* the paths tested with os.path.exists, in order
    executed,    \* the configuration files executed, in order
    defaults     \* the configuration object when the loading of the files began

sizeVars == <<size, sizeOut>>
resolveVars == <<name, resolveOut>>
clusterVars == <<streams, apiLog>>
patchVars == <<target, call, passed>>
runVars == <<environ, pc, error, routes, files, probed, executed, defaults>>
restVars == <<sizeVars, resolveVars, patchVars>>

vars == <<size, sizeOut, name, resolveOut, streams, apiLog, c, target, call, passed,
          environ, pc, error, routes, files, probed, executed, defaults>>

----------------------------------------------------------------------------
(* Python strings *)

UpperChars == <<"A","B","C","D","E","F","G","H","I","J","K","L","M",
                "N","O","P","Q","R","S","T","U","V","W","X","Y","Z">>
LowerChars == <<"a","b","c","d","e","f","g","h","i","j","k","l","m",
                "n","o","p","q","r","s","t","u","v","w","x","y","z">>

\* str.lower() on one character
LowerChar(ch) ==
    IF \E i \in 1..Len(UpperChars) : UpperChars[i] = ch
    THEN LowerChars[CHOOSE i \in 1..Len(UpperChars) : UpperChars[i] = ch]
    ELSE ch

\* str.lower()
lower(s) == [i \in 1..Len(s) |-> LowerChar(s[i])]

\* str.startswith(prefix)
startswith(s, prefix) ==
    /\ Len(prefix) <= Len(s)
    /\ SubSeq(s, 1, Len(prefix)) = prefix

\* str.endswith(suffix)
endswith(s, suffix) ==
    /\ Len(suffix) <= Len(s)
    /\ SubSeq(s, Len(s) - Len(suffix) + 1, Len(s)) = suffix

\* s[0:-k] for k >= 1
DropLast(s, k) == IF k >= Len(s) THEN << >> ELSE SubSeq(s, 1, Len(s) - k)

\* s[k:]
DropFirst(s, k) == IF k >= Len(s) THEN << >> ELSE SubSeq(s, k + 1, Len(s))

\* every string of at most n characters of chars
Strings(chars, n) == UNION {[1..k -> chars] : k \in 0..n}

\* str.find(ch) != -1
Contains(s, ch) == \E i \in 1..Len(s) : s[i] = ch

----------------------------------------------------------------------------
(* Python integers *)

Base == 10^4

RECURSIVE StripZeros(_)
StripZeros(mag) ==
    IF mag = << >> THEN << >>
    ELSE IF mag[Len(mag)] = 0 THEN StripZeros(SubSeq(mag, 1, Len(mag) - 1))
    ELSE mag

RECURSIVE MagAddC(_, _, _)
MagAddC(a, b, carry) ==
    IF a = << >> /\ b = << >>
    THEN IF carry = 0 THEN << >> ELSE <<carry>>
    ELSE LET x == IF a = << >> THEN 0 ELSE Head(a)
             y == IF b = << >> THEN 0 ELSE Head(b)
             t == x + y + carry
         IN  <<t % Base>> \o MagAddC(IF a = << >> THEN << >> ELSE Tail(a),
                                     IF b = << >> THEN << >> ELSE Tail(b),
                                     t \div Base)

MagAdd(a, b) == MagAddC(a, b, 0)

RECURSIVE MagMulLimb(_, _, _)
MagMulLimb(a, k, carry) ==
    IF a = << >>
    THEN IF carry = 0 THEN << >> ELSE <<carry>>
    ELSE LET t == Head(a) * k + carry
         IN  <<t % Base>> \o MagMulLimb(Tail(a), k, t \div Base)

RECURSIVE MagMul(_, _)
MagMul(a, b) ==
    IF a = << >> THEN << >>
    ELSE StripZeros(MagAdd(MagMulLimb(b, Head(a), 0),
                           IF MagMul(Tail(a), b) = << >> THEN << >>
                           ELSE <<0>> \o MagMul(Tail(a), b)))

\* an int: sign and magnitude, zero is positive
MkInt(neg, mag) == [neg |-> neg /\ StripZeros(mag) # << >>, mag |-> StripZeros(mag)]

IntOfNat(n) == MkInt(FALSE, <<n % Base, (n \div Base) % Base, n \div (Base * Base)>>)

\* a * b
IntMul(a, b) == MkInt(a.neg # b.neg, MagMul(a.mag, b.mag))

\* a ** k
RECURSIVE IntPow(_, _)
IntPow(a, k) == IF k = 0 THEN IntOfNat(1) ELSE IntMul(a, IntPow(a, k - 1))

Digits == <<"0","1","2","3","4","5","6","7","8","9">>
IsDigit(ch) == \E i \in 1..10 : Digits[i] = ch
DigitVal(ch) == (CHOOSE i \in 1..10 : Digits[i] = ch) - 1

Whitespace == {" "}

RECURSIVE lstrip(_)
lstrip(s) == IF s # << >> /\ Head(s) \in Whitespace THEN lstrip(Tail(s)) ELSE s

RECURSIVE rstrip(_)
rstrip(s) ==
    IF s # << >> /\ s[Len(s)] \in Whitespace
    THEN rstrip(SubSeq(s, 1, Len(s) - 1)) ELSE s

\* the digit part of an int literal: digits, single underscores between them
DigitsOk(d) ==
    /\ d # << >>
    /\ \A i \in 1..Len(d) : IsDigit(d[i]) \/ d[i] = "_"
    /\ IsDigit(d[1]) /\ IsDigit(d[Len(d)])
    /\ \A i \in 1..(Len(d) - 1) : ~(d[i] = "_" /\ d[i + 1] = "_")

RECURSIVE DigitsMag(_, _)
DigitsMag(d, acc) ==
    IF d = << >> THEN acc
    ELSE IF Head(d) = "_" THEN DigitsMag(Tail(d), acc)
    ELSE DigitsMag(Tail(d),
                   StripZeros(MagAdd(MagMulLimb(acc, 10, 0), <<DigitVal(Head(d))>>)))

\* int(s): [ok, value]; ok = FALSE is ValueError
int(s) ==
    LET t    == rstrip(lstrip(s))
        sign == t # << >> /\ Head(t) \in {"-", "+"}
        d    == IF sign THEN Tail(t) ELSE t
    IN  IF DigitsOk(d)
        THEN [ok |-> TRUE, value |-> MkInt(sign /\ Head(t) = "-", DigitsMag(d, << >>))]
        ELSE [ok |-> FALSE, value |-> IntOfNat(0)]

----------------------------------------------------------------------------
(* convert_size_to_bytes *)

\* the outcome of a call: a returned value or a raised exception
Return(v) == [kind |-> "return", exc |-> "", value |-> v]
Raise(e)  == [kind |-> "raise", exc |-> e, value |-> IntOfNat(0)]
NotCalled == [kind |-> "none", exc |-> "", value |-> IntOfNat(0)]

\* the dict with the binary multipliers taken for the decimal ones
multipliers_DecimalOnly ==
    << [suffix |-> <<"k">>,      value |-> IntOfNat(1000)],
       [suffix |-> <<"m">>,      value |-> IntPow(IntOfNat(1000), 2)],
       [suffix |-> <<"g">>,      value |-> IntPow(IntOfNat(1000), 3)],
       [suffix |-> <<"t">>,      value |-> IntPow(IntOfNat(1000), 4)],
       [suffix |-> <<"k","i">>,  value |-> IntOfNat(1000)],
       [suffix |-> <<"m","i">>,  value |-> IntPow(IntOfNat(1000), 2)],
       [suffix |-> <<"g","i">>,  value |-> IntPow(IntOfNat(1000), 3)],
       [suffix |-> <<"t","i">>,  value |-> IntPow(IntOfNat(1000), 4)] >>

\* the multipliers dict, in insertion order
multipliers ==
    << [suffix |-> <<"k">>,      value |-> IntOfNat(1000)],
       [suffix |-> <<"m">>,      value |-> IntPow(IntOfNat(1000), 2)],
       [suffix |-> <<"g">>,      value |-> IntPow(IntOfNat(1000), 3)],
       [suffix |-> <<"t">>,      value |-> IntPow(IntOfNat(1000), 4)],
       [suffix |-> <<"k","i">>,  value |-> IntOfNat(1024)],
       [suffix |-> <<"m","i">>,  value |-> IntPow(IntOfNat(1024), 2)],
       [suffix |-> <<"g","i">>,  value |-> IntPow(IntOfNat(1024), 3)],
       [suffix |-> <<"t","i">>,  value |-> IntPow(IntOfNat(1024), 4)] >>

\* return int(text) * factor, the ValueError of int() propagating
IntTimes(text, factor) ==
    IF int(text).ok THEN Return(IntMul(int(text).value, factor))
    ELSE Raise("ValueError")

\* the statements after the loop: the else clause of the for, then the try
AfterLoop(sz) ==
    IF endswith(lower(sz), <<"b">>)
    THEN IntTimes(DropLast(sz, 1), IntOfNat(1))
    ELSE IF int(sz).ok THEN Return(int(sz).value)
    ELSE Raise("RuntimeError")

RECURSIVE SuffixLoop(_, _)
SuffixLoop(sz, i) ==
    IF i > Len(multipliers) THEN AfterLoop(sz)
    ELSE IF endswith(lower(sz), multipliers[i].suffix)
    THEN IntTimes(DropLast(sz, Len(multipliers[i].suffix)), multipliers[i].value)
    ELSE SuffixLoop(sz, i + 1)

convert_size_to_bytes(sz) == SuffixLoop(sz, 1)

----------------------------------------------------------------------------
(* resolve_image_name *)

latest == <<"l","a","t","e","s","t">>

\* the outcome of a call: a returned name or a propagated ApiException
ReturnName(n)     == [kind |-> "return", status |-> 0, value |-> n]
RaiseApi(status)  == [kind |-> "raise", status |-> status, value |-> << >>]
NameNotCalled     == [kind |-> "none", status |-> 0, value |-> << >>]

\* str.split(':', 1)
RECURSIVE FindChar(_, _, _)
FindChar(s, ch, i) ==
    IF i > Len(s) THEN 0 ELSE IF s[i] = ch THEN i ELSE FindChar(s, ch, i + 1)

split1(s, ch) ==
    IF FindChar(s, ch, 1) = 0 THEN <<s>>
    ELSE <<SubSeq(s, 1, FindChar(s, ch, 1) - 1), DropFirst(s, FindChar(s, ch, 1))>>

\* the value passed as name= to the API: a str, or a list of str
StrValue(s)  == [type |-> "str", val |-> <<s>>]
ListValue(l) == [type |-> "list", val |-> l]

\* source_image, tag = parts, 'latest'   /   source_image, tag = parts
source_image(parts) == IF Len(parts) = 1 THEN ListValue(parts) ELSE StrValue(parts[1])
tag(parts)          == IF Len(parts) = 1 THEN latest ELSE parts[2]

\* the responses the API can give to a lookup: the stream of that name when
\* the name is a string naming one, 404 when there is none, and 403 or 500
\* whatever is asked
Found(stream)    == [ok |-> TRUE, status |-> 200, stream |-> stream]
ApiException(st) ==
    [ok |-> FALSE, status |-> st,
     stream |-> [tags |-> << >>, dockerImageRepository |-> << >>]]

Responses(cluster, key) ==
    ( IF key.type = "str" /\ key.val[1] \in DOMAIN cluster
      THEN {Found(cluster[key.val[1]])}
      ELSE {ApiException(404)} )
    \cup {ApiException(403), ApiException(500)}

\* except ApiException as e: only 404 is taken for an absent stream
ExceptApiException_Only404(n, e) ==
    IF e.status # 404 THEN RaiseApi(e.status) ELSE ReturnName(n)

\* except ApiException as e
ExceptApiException(n, e) ==
    IF e.status \notin {403, 404} THEN RaiseApi(e.status) ELSE ReturnName(n)

\* the loop over image_stream.status.tags
TagLoop(n, stream, t) ==
    IF /\ Len(stream.tags) > 0
       /\ \E i \in 1..Len(stream.tags) : stream.tags[i] = t
       /\ stream.dockerImageRepository # << >>
    THEN ReturnName(stream.dockerImageRepository \o <<":">> \o t)
    ELSE ReturnName(n)

\* the names resolved without a lookup
IsQualified(n) == Contains(n, "/")

\* the result of resolve_image_name(n) when the lookup is answered by resp
resolve_image_name(n, resp) ==
    IF IsQualified(n) THEN ReturnName(n)
    ELSE IF ~resp.ok THEN ExceptApiException(n, resp)
    ELSE TagLoop(n, resp.stream, tag(split1(n, ":")))

\* the lookups of resolve_image_name(n)
LookupsOf(n, resp) ==
    IF IsQualified(n) THEN << >>
    ELSE <<[key |-> source_image(split1(n, ":")), response |-> resp]>>

----------------------------------------------------------------------------
(* The patches of ConfigurableHTTPProxy.add_route and                      *)
(* LocalProcessSpawner.get_env                                             *)

\* '%s' % n for an int n >= 0
RECURSIVE str(_)
str(n) == IF n < 10 THEN <<Digits[n + 1]>> ELSE str(n \div 10) \o <<Digits[(n % 10) + 1]>>

\* str.replace(old, new), old not empty
RECURSIVE replace(_, _, _)
replace(s, old, new) ==
    IF Len(s) < Len(old) THEN s
    ELSE IF startswith(s, old) THEN new \o replace(DropFirst(s, Len(old)), old, new)
    ELSE <<Head(s)>> \o replace(Tail(s), old, new)

http == <<"h","t","t","p",":","/","/">>
localhost == <<"1","2","7",".","0",".","0",".","1">>

\* old = 'http://%s:%s' % (c.JupyterHub.hub_connect_ip, c.JupyterHub.hub_port)
old(cfg) == http \o cfg.hub_connect_ip \o <<":">> \o str(cfg.hub_port)

\* new = 'http://127.0.0.1:%s' % c.JupyterHub.hub_port
new(cfg) == http \o localhost \o <<":">> \o str(cfg.hub_port)

\* the rewrite with the startswith test left out
RewriteTarget_NoPrefixTest(cfg, t) == replace(t, old(cfg), new(cfg))

\* if target.startswith(old): target = target.replace(old, new)
RewriteTarget(cfg, t) ==
    IF startswith(t, old(cfg)) THEN replace(t, old(cfg), new(cfg)) ELSE t

NoCall == [fn |-> "none", routespec |-> "", target |-> << >>, data |-> "",
           args |-> << >>, env |-> << >>]

AddRouteCall(routespec, t, data, args) ==
    [fn |-> "add_route", routespec |-> routespec, target |-> t, data |-> data,
     args |-> args, env |-> << >>]

GetEnvCall(env) ==
    [fn |-> "get_env", routespec |-> "", target |-> << >>, data |-> "",
     args |-> << >>, env |-> env]

\* _wrapper_add_route: the call of the wrapped method
wrapper_add_route(cfg, routespec, t, data, args) ==
    AddRouteCall(routespec, RewriteTarget(cfg, t), data, args)

\* _wrapper_get_env: the returned environment, env being what the wrapped
\* method returned
wrapper_get_env(cfg, env) ==
    IF /\ "JUPYTERHUB_API_URL" \in DOMAIN env
       /\ env["JUPYTERHUB_API_URL"] # << >>
       /\ startswith(env["JUPYTERHUB_API_URL"], old(cfg))
    THEN GetEnvCall([env EXCEPT !["JUPYTERHUB_API_URL"] =
                        replace(env["JUPYTERHUB_API_URL"], old(cfg), new(cfg))])
    ELSE GetEnvCall(env)

----------------------------------------------------------------------------
(* The surroundings of a run: environment variables, image streams,      *)
(* routes and configuration files                                         *)

homeroom == <<"h","o","m","e","r","o","o","m">>

MaxRoutes == 2

Unset    == [set |-> FALSE, val |-> << >>]
Value(v) == [set |-> TRUE, val |-> v]

\* os.environ with the variables that are set; the deployments that pin the
\* version of oc pin that of kubectl and set a cookie secret as well
MkEnviron(opts) ==
    [v \in {x \in DOMAIN opts : opts[x].set} |-> opts[v].val]

Environs ==
    { MkEnviron([APPLICATION_NAME           |-> app,
                 CONFIGURATION_TYPE         |-> type,
                 JUPYTERHUB_NOTEBOOK_IMAGE  |-> image,
                 JUPYTERHUB_NOTEBOOK_MEMORY |-> memory,
                 TERMINAL_IMAGE             |-> terminal,
                 WORKSHOP_MEMORY            |-> workshop,
                 CLUSTER_SUBDOMAIN          |-> subdomain,
                 OC_VERSION                 |-> oc,
                 ODO_VERSION                |-> Unset,
                 KUBECTL_VERSION            |-> oc,
                 JUPYTERHUB_COOKIE_SECRET   |-> oc]) :
        app \in {Unset, Value(<<"a">>)},
        type \in {[set |-> FALSE, val |-> ""], [set |-> TRUE, val |-> "user-workspace"]},
        image \in {Unset, Value(<<"a">>)},
        memory \in {Unset, Value(<< >>), Value(<<"1","G","i">>), Value(<<"x","M">>)},
        terminal \in {Unset, Value(<<"a",":","b">>)},
        workshop \in {Unset, Value(<<"2","G">>), Value(<<"x">>)},
        subdomain \in {Unset, Value(<<"x">>)},
        oc \in {Unset, Value(<<"4">>)} }

\* a namespace with the image stream "a", tagged latest and b
RunClusters ==
    { [n \in {<<"a">>} |-> [tags |-> <<latest, <<"b">>>>,
                            dockerImageRepository |-> <<"r","/","a">>]] }

RouteItems ==
    [name : {homeroom, <<"a">>}, host : {<< >>, <<"h",".","x",".","y">>}]
    \cup {[name |-> <<"b">>, host |-> <<"b",".","x",".","y">>]}

\* the routes of a namespace: no two have the same name
RouteLists ==
    { l \in Strings(RouteItems, MaxRoutes) :
        \A i, j \in 1..Len(l) : i # j => l[i].name # l[j].name }

FileContents ==
    { [k \in {"Spawner.mem_limit"} |-> IntOfNat(1)],
      [k \in {"Spawner.mem_limit", "Spawner.start_timeout"} |->
          IF k = "Spawner.mem_limit" THEN IntOfNat(2) ELSE 300] }

FileStates ==
    {[exists |-> FALSE, content |-> << >>]}
    \cup {[exists |-> TRUE, content |-> content] : content \in FileContents}

----------------------------------------------------------------------------
(* The script, statement by statement *)

\* os.environ.get(var, default)
Get(var, default) == IF var \in DOMAIN environ THEN environ[var] ELSE default

\* os.environ.get(var) is true: set and not empty
IsSet(var) == var \in DOMAIN environ /\ environ[var] # << >>

\* an attribute or key assignment
Assign(f, k, v) == [x \in DOMAIN f \cup {k} |-> IF x = k THEN v ELSE f[x]]

RECURSIVE AssignAll(_, _)
AssignAll(f, kvs) ==
    IF kvs = << >> THEN f ELSE AssignAll(Assign(f, Head(kvs)[1], Head(kvs)[2]), Tail(kvs))

\* c.Spawner.environment[k] = v
SetEnvironment(cfg, k, v) ==
    Assign(cfg, "Spawner.environment", Assign(cfg["Spawner.environment"], k, v))

NoError == [at |-> "", exc |-> ""]

\* an uncaught exception ends the script
Abort(exc) == pc' = "aborted" /\ error' = [at |-> pc, exc |-> exc]

Goto(next) == pc' = next /\ UNCHANGED error

application_name == Get("APPLICATION_NAME", homeroom)

configuration_type == Get("CONFIGURATION_TYPE", "hosted-workshop")

\* the namespace read from the service account directory (lines 52-53)
namespace == <<"n","s">>

\* os.getuid()
uid == "os.getuid()"

\* template % args, the template is not looked into
Format(template, args) == [template |-> template, args |-> args]

\* lines 167-171
SetCookieSecret(cfg) ==
    IF IsSet("JUPYTERHUB_COOKIE_SECRET")
    THEN Assign(cfg, "JupyterHub.cookie_secret",
                [encoding |-> "UTF-8", text |-> environ["JUPYTERHUB_COOKIE_SECRET"]])
    ELSE Assign(cfg, "JupyterHub.cookie_secret_file", "/opt/app-root/data/cookie_secret")

\* lines 132-177
SetDefaults ==
    /\ pc = "start"
    /\ c' = AssignAll(
               SetCookieSecret(
                   AssignAll(c, << <<"JupyterHub.port", 8080>>,
                                   <<"JupyterHub.hub_ip", "0.0.0.0">>,
                                   <<"JupyterHub.hub_port", 8081>>,
                                   <<"JupyterHub.hub_connect_ip", application_name>>,
                                   <<"ConfigurableHTTPProxy.api_url", "http://127.0.0.1:8082">>,
                                   <<"Spawner.start_timeout", 120>>,
                                   <<"Spawner.http_timeout", 60>>,
                                   <<"KubeSpawner.port", 8080>>,
                                   <<"KubeSpawner.common_labels",
                                     [app |-> application_name]>>,
                                   <<"KubeSpawner.uid", uid>>,
                                   <<"KubeSpawner.fs_gid", uid>>,
                                   <<"KubeSpawner.extra_annotations",
                                     [k \in {"alpha.image.policy.openshift.io/resolve-names"}
                                        |-> "*"]>>,
                                   <<"KubeSpawner.cmd", <<"start-singleuser.sh">> >>,
                                   <<"KubeSpawner.pod_name_template",
                                     Format("%s-nb-{username}", <<application_name>>)>>,
                                   <<"JupyterHub.admin_access", TRUE>> >>)),
               << <<"JupyterHub.db_url", "/opt/app-root/data/database.sqlite">>,
                  <<"JupyterHub.authenticator_class", "tmpauthenticator.TmpAuthenticator">>,
                  <<"JupyterHub.spawner_class", "kubespawner.KubeSpawner">> >>)
    /\ Goto("notebook_image")
    /\ UNCHANGED <<environ, routes, files, probed, executed, defaults, clusterVars, restVars>>

s2i_minimal_notebook ==
    <<"s","2","i","-","m","i","n","i","m","a","l","-",
      "n","o","t","e","b","o","o","k",":","3",".","6">>

\* c.KubeSpawner.image_spec = resolve_image_name(n)
SetImageSpec(n, next) ==
    \E resp \in Responses(streams, source_image(split1(n, ":"))) :
        /\ apiLog' = apiLog \o LookupsOf(n, resp)
        /\ IF resolve_image_name(n, resp).kind = "raise"
           THEN Abort("ApiException") /\ UNCHANGED c
           ELSE /\ c' = Assign(c, "KubeSpawner.image_spec", resolve_image_name(n, resp).value)
                /\ Goto(next)

\* lines 179-181
NotebookImage ==
    /\ pc = "notebook_image"
    /\ SetImageSpec(Get("JUPYTERHUB_NOTEBOOK_IMAGE", s2i_minimal_notebook), "notebook_memory")
    /\ UNCHANGED <<environ, routes, files, probed, executed, defaults, streams, restVars>>

\* c.Spawner.mem_limit = convert_size_to_bytes(sz)
SetMemLimit(sz, next) ==
    IF convert_size_to_bytes(sz).kind = "raise"
    THEN Abort(convert_size_to_bytes(sz).exc) /\ UNCHANGED c
    ELSE /\ c' = Assign(c, "Spawner.mem_limit", convert_size_to_bytes(sz).value)
         /\ Goto(next)

\* lines 183-184
NotebookMemory ==
    /\ pc = "notebook_memory"
    /\ IF IsSet("JUPYTERHUB_NOTEBOOK_MEMORY")
       THEN SetMemLimit(environ["JUPYTERHUB_NOTEBOOK_MEMORY"], "server_info")
       ELSE Goto("server_info") /\ UNCHANGED c
    /\ UNCHANGED <<environ, routes, files, probed, executed, defaults, clusterVars, restVars>>

\* lines 231-247: the version request succeeds or raises
ServerInfo ==
    /\ pc = "server_info"
    /\ \E ok \in BOOLEAN : IF ok THEN Goto("containers") ELSE Abort("RequestException")
    /\ UNCHANGED <<c, environ, routes, files, probed, executed, defaults, clusterVars, restVars>>

\* lines 251-300
SetContainers ==
    /\ pc = "containers"
    /\ c' = AssignAll(c, << <<"JupyterHub.logo_file",
                              "/opt/app-root/src/images/HomeroomIcon.png">>,
                            <<"KubeSpawner.pod_name_template",
                              Format("%s-%s-{username}", <<application_name, namespace>>)>>,
                            <<"KubeSpawner.port", 10080>>,
                            <<"Spawner.environment", << >> >>,
                            <<"JupyterHub.services", << >> >>,
                            <<"KubeSpawner.init_containers", << >> >>,
                            <<"KubeSpawner.extra_containers", << >> >>,
                            <<"JupyterHub.extra_handlers", << >> >> >>)
    /\ Goto("terminal_image")
    /\ UNCHANGED <<environ, routes, files, probed, executed, defaults, clusterVars, restVars>>

\* terminal_image after lines 315-319
terminal_image ==
    IF IsSet("TERMINAL_IMAGE") THEN environ["TERMINAL_IMAGE"]
    ELSE application_name \o <<":">> \o latest

\* lines 315-321
TerminalImage ==
    /\ pc = "terminal_image"
    /\ \E resp \in Responses(streams, source_image(split1(terminal_image, ":"))) :
          /\ apiLog' = apiLog \o LookupsOf(terminal_image, resp)
          /\ IF resolve_image_name(terminal_image, resp).kind = "raise"
             THEN /\ Abort("ApiException")
                  /\ c' = IF IsSet("TERMINAL_IMAGE") THEN c
                          ELSE Assign(c, "KubeSpawner.image_pull_policy", "Always")
             ELSE /\ c' = Assign(IF IsSet("TERMINAL_IMAGE") THEN c
                                 ELSE Assign(c, "KubeSpawner.image_pull_policy", "Always"),
                                 "KubeSpawner.image_spec",
                                 resolve_image_name(terminal_image, resp).value)
                  /\ Goto("workshop_memory")
    /\ UNCHANGED <<environ, routes, files, probed, executed, defaults, streams, restVars>>

default_memory == <<"5","1","2","M","i">>

\* the overwrite made only when no limit is set yet
WorkshopMemory_KeepExisting ==
    /\ pc = "workshop_memory"
    /\ IF "Spawner.mem_limit" \in DOMAIN c
       THEN Goto("route") /\ UNCHANGED c
       ELSE SetMemLimit(Get("WORKSHOP_MEMORY", default_memory), "route")
    /\ UNCHANGED <<environ, routes, files, probed, executed, defaults, clusterVars, restVars>>

\* lines 327-328
WorkshopMemory ==
    /\ pc = "workshop_memory"
    /\ SetMemLimit(Get("WORKSHOP_MEMORY", default_memory), "route")
    /\ UNCHANGED <<environ, routes, files, probed, executed, defaults, clusterVars, restVars>>

\* a Python value that may be None
None     == [none |-> TRUE, val |-> << >>]
Some(v)  == [none |-> FALSE, val |-> v]
Truth(x) == ~x.none /\ x.val # << >>

\* the host of the first route, whatever its name
extract_hostname_AnyRoute(items, n) ==
    IF items = << >> THEN None ELSE Some(Head(items).host)

RECURSIVE extract_hostname(_, _)
extract_hostname(items, n) ==
    IF items = << >> THEN None
    ELSE IF Head(items).name = n THEN Some(Head(items).host)
    ELSE extract_hostname(Tail(items), n)

public_hostname == extract_hostname(routes, application_name)

https == <<"h","t","t","p","s",":","/","/">>

\* the answers of the API to the listing of the routes
RouteList(items) == [ok |-> TRUE, status |-> 200, items |-> items]
RouteError(st)   == [ok |-> FALSE, status |-> st, items |-> << >>]

\* lines 334-349
Route ==
    /\ pc = "route"
    /\ \E resp \in {RouteList(items) : items \in RouteLists} \cup {RouteError(403)} :
          IF ~resp.ok
          THEN Abort("ApiException") /\ UNCHANGED <<c, routes>>
          ELSE /\ routes' = resp.items
               /\ IF ~Truth(extract_hostname(resp.items, application_name))
                  THEN Abort("RuntimeError") /\ UNCHANGED c
                  ELSE /\ c' = SetEnvironment(c, "JUPYTERHUB_ROUTE",
                                  https \o extract_hostname(resp.items, application_name).val)
                       /\ Goto("cluster_subdomain")
    /\ UNCHANGED <<environ, files, probed, executed, defaults, clusterVars, restVars>>

\* str.split(ch)
RECURSIVE split(_, _)
split(s, ch) ==
    IF FindChar(s, ch, 1) = 0 THEN <<s>>
    ELSE <<SubSeq(s, 1, FindChar(s, ch, 1) - 1)>> \o split(DropFirst(s, FindChar(s, ch, 1)), ch)

\* sep.join(parts)
RECURSIVE join(_, _)
join(sep, parts) ==
    IF parts = << >> THEN << >>
    ELSE IF Len(parts) = 1 THEN parts[1]
    ELSE parts[1] \o sep \o join(sep, Tail(parts))

\* lines 355-360
ClusterSubdomain ==
    /\ pc = "cluster_subdomain"
    /\ c' = SetEnvironment(c, "CLUSTER_SUBDOMAIN",
               IF IsSet("CLUSTER_SUBDOMAIN") THEN environ["CLUSTER_SUBDOMAIN"]
               ELSE join(<<".">>, Tail(split(public_hostname.val, "."))))
    /\ Goto("tool_versions")
    /\ UNCHANGED <<environ, routes, files, probed, executed, defaults, clusterVars, restVars>>

\* if os.environ.get(var): c.Spawner.environment[var] = os.environ.get(var)
CopyIfSet(cfg, var) == IF IsSet(var) THEN SetEnvironment(cfg, var, environ[var]) ELSE cfg

\* lines 367-372
ToolVersions ==
    /\ pc = "tool_versions"
    /\ c' = CopyIfSet(CopyIfSet(CopyIfSet(c, "OC_VERSION"), "ODO_VERSION"), "KUBECTL_VERSION")
    /\ Goto("load_config")
    /\ UNCHANGED <<environ, routes, files, probed, executed, defaults, clusterVars, restVars>>

config_root == "/opt/app-root/src/configs"
config_file == config_root \o "/" \o configuration_type \o ".py"
environ_config_file == "/opt/app-root/configs/jupyterhub_config.py"

\* the two files with the file of the environment loaded first
ConfigFiles_EnvironFirst == <<environ_config_file, config_file>>

\* the files in the order the script loads them
ConfigFiles == <<config_file, environ_config_file>>

\* exec(compile(fp.read(), path, 'exec'), globals()), the file being a list
\* of assignments to attributes of c
exec(cfg, content) ==
    [k \in DOMAIN cfg \cup DOMAIN content |-> IF k \in DOMAIN content THEN content[k] ELSE cfg[k]]

\* if os.path.exists(path): execute it
LoadFile(cfg, path, next) ==
    /\ \E f \in FileStates :
          /\ probed' = Append(probed, path)
          /\ IF f.exists
             THEN /\ files' = Assign(files, path, f.content)
                  /\ executed' = Append(executed, path)
                  /\ c' = exec(cfg, f.content)
             ELSE /\ UNCHANGED <<files, executed>>
                  /\ c' = cfg
    /\ Goto(next)

\* lines 376-384
LoadConfig ==
    /\ pc = "load_config"
    /\ defaults' = SetEnvironment(SetEnvironment(c, "DEPLOYMENT_TYPE", "spawner"),
                                  "CONFIGURATION_TYPE", configuration_type)
    /\ LoadFile(defaults', ConfigFiles[1], "load_environ_config")
    /\ UNCHANGED <<environ, routes, clusterVars, restVars>>

\* lines 388-392
LoadEnvironConfig ==
    /\ pc = "load_environ_config"
    /\ LoadFile(c, ConfigFiles[2], "done")
    /\ UNCHANGED <<environ, routes, defaults, clusterVars, restVars>>

----------------------------------------------------------------------------
(* The parts of the state a scenario does not use *)

SizeIdle    == size = << >> /\ sizeOut = NotCalled
ResolveIdle == name = << >> /\ resolveOut = NameNotCalled
ClusterIdle == streams = << >> /\ apiLog = << >>
PatchIdle   == target = << >> /\ call = NoCall /\ passed = NoCall
RunIdle     ==
    /\ environ = << >> /\ pc = "idle" /\ error = NoError /\ routes = << >>
    /\ files = << >> /\ probed = << >> /\ executed = << >> /\ defaults = << >>

----------------------------------------------------------------------------
(* Calls of the patched methods *)

MaxFragments == 3

HubConfigs == [hub_connect_ip : {<<"h">>, <<"h", "b">>}, hub_port : {8081, 80}]

\* the pieces targets are made of
Fragments ==
    {old(cfg) : cfg \in HubConfigs} \cup {new(cfg) : cfg \in HubConfigs}
    \cup {http, <<"/">>, <<"1">>, <<"b">>}

RECURSIVE Concat(_)
Concat(ss) == IF ss = << >> THEN << >> ELSE Head(ss) \o Concat(Tail(ss))

Targets == {Concat(fs) : fs \in Strings(Fragments, MaxFragments)}

Routespecs == {"/", "/user/u/"}
RouteData == {"{}", "{user: u}"}
ExtraArgs == {<< >>, <<"extra">>}
OtherEnv == {"/bin", "/usr/bin"}

InitPatch ==
    /\ c \in HubConfigs
    /\ target \in Targets
    /\ call = NoCall /\ passed = NoCall
    /\ SizeIdle /\ ResolveIdle /\ ClusterIdle /\ RunIdle

CallAddRoute ==
    /\ call = NoCall
    /\ \E routespec \in Routespecs, data \in RouteData, args \in ExtraArgs :
          /\ call' = AddRouteCall(routespec, target, data, args)
          /\ passed' = wrapper_add_route(c, routespec, target, data, args)
    /\ UNCHANGED <<c, target, sizeVars, resolveVars, clusterVars, runVars>>

\* the environment the wrapped get_env returns: with or without the API URL
CallGetEnv ==
    /\ call = NoCall
    /\ \E path \in OtherEnv, present \in BOOLEAN :
          LET env == IF present
                     THEN [k \in {"JUPYTERHUB_API_URL", "PATH"} |->
                              IF k = "PATH" THEN path ELSE target]
                     ELSE [k \in {"PATH"} |-> path]
          IN  /\ call' = GetEnvCall(env)
              /\ passed' = wrapper_get_env(c, env)
    /\ UNCHANGED <<c, target, sizeVars, resolveVars, clusterVars, runVars>>

NextPatch == CallAddRoute \/ CallGetEnv

SpecPatch == InitPatch /\ [][NextPatch]_vars

----------------------------------------------------------------------------
(* Calls of resolve_image_name on short names, in every small namespace *)

MaxNameLen == 3

ImageChars == {"a", "b", ":", "/"}

TagLists == {<< >>, <<latest>>, <<<<"b">>>>, <<<<"b">>, latest>>}

Repositories == {<< >>, <<"r", "/", "a">>}

StreamStates == [tags : TagLists, dockerImageRepository : Repositories]

Clusters == UNION {[d -> StreamStates] : d \in {{}, {<<"a">>}, {<<"a">>, <<"b">>}, {<<"a", "b">>}}}

\* image names: a reference is not empty and does not start with the tag
\* separator
ImageNames ==
    {n \in Strings(ImageChars, MaxNameLen) : n # << >> /\ Head(n) # ":"}
    \cup {<<"a">> \o <<":">> \o latest, <<"b">> \o <<":">> \o latest}

InitResolve ==
    /\ name \in ImageNames
    /\ streams \in Clusters
    /\ resolveOut = NameNotCalled
    /\ apiLog = << >>
    /\ SizeIdle /\ PatchIdle /\ c = << >> /\ RunIdle

CallResolve ==
    /\ resolveOut = NameNotCalled
    /\ \E resp \in Responses(streams, source_image(split1(name, ":"))) :
          /\ resolveOut' = resolve_image_name(name, resp)
          /\ apiLog' = LookupsOf(name, resp)
    /\ UNCHANGED <<name, streams, sizeVars, c, patchVars, runVars>>

NextResolve == CallResolve

SpecResolve == InitResolve /\ [][NextResolve]_vars

----------------------------------------------------------------------------
(* Calls of convert_size_to_bytes on every short string *)

MaxSizeLen == 3

SizeChars == {"0", "1", "9", "-", "_", " ", "k", "K", "M", "g", "T", "i", "I", "b", "x"}

InitSize ==
    /\ size \in Strings(SizeChars, MaxSizeLen)
    /\ sizeOut = NotCalled
    /\ ResolveIdle /\ ClusterIdle /\ PatchIdle /\ c = << >> /\ RunIdle

CallConvertSize ==
    /\ sizeOut = NotCalled
    /\ sizeOut' = convert_size_to_bytes(size)
    /\ UNCHANGED <<size, resolveVars, clusterVars, c, patchVars, runVars>>

NextSize == CallConvertSize

SpecSize == InitSize /\ [][NextSize]_vars

----------------------------------------------------------------------------
(* Runs of the script *)

Init ==
    /\ environ \in Environs
    /\ streams \in RunClusters
    /\ apiLog = << >>
    /\ c = << >>
    /\ pc = "start"
    /\ error = NoError
    /\ routes = << >>
    /\ files = << >> /\ probed = << >> /\ executed = << >> /\ defaults = << >>
    /\ SizeIdle /\ ResolveIdle /\ PatchIdle

Next ==
    \/ SetDefaults
    \/ NotebookImage
    \/ NotebookMemory
    \/ ServerInfo
    \/ SetContainers
    \/ TerminalImage
    \/ WorkshopMemory
    \/ Route
    \/ ClusterSubdomain
    \/ ToolVersions
    \/ LoadConfig
    \/ LoadEnvironConfig

Spec == Init /\ [][Next]_vars

----------------------------------------------------------------------------
(* Claims about convert_size_to_bytes *)

\* the integer written by a decimal numeral
Dec(numeral) == int(numeral).value

\* the suffixes and multipliers of the documentation, lower-cased
SupportedSuffixes ==
    { [suffix |-> <<"k">>,     mult |-> Dec(<<"1","0","0","0">>)],
      [suffix |-> <<"m">>,     mult |-> Dec(<<"1","0","0","0","0","0","0">>)],
      [suffix |-> <<"g">>,     mult |-> Dec(<<"1","0","0","0","0","0","0","0","0","0">>)],
      [suffix |-> <<"t">>,
       mult |-> Dec(<<"1","0","0","0","0","0","0","0","0","0","0","0","0">>)],
      [suffix |-> <<"k","i">>, mult |-> Dec(<<"1","0","2","4">>)],
      [suffix |-> <<"m","i">>, mult |-> Dec(<<"1","0","4","8","5","7","6">>)],
      [suffix |-> <<"g","i">>, mult |-> Dec(<<"1","0","7","3","7","4","1","8","2","4">>)],
      [suffix |-> <<"t","i">>,
       mult |-> Dec(<<"1","0","9","9","5","1","1","6","2","7","7","7","6">>)] }

\* s is an integer followed by the suffix of e, in any case
IsSuffixed(s, e) ==
    /\ endswith(lower(s), e.suffix)
    /\ int(DropLast(s, Len(e.suffix))).ok

\* C1: an integer n followed by a supported suffix, in any case, converts to
\* n times the multiplier of that very suffix (Ki, Mi, Gi, Ti are never read
\* as K, M, G, T), and a plain integer n converts to n.
C1_SizeParsing ==
    sizeOut # NotCalled =>
        /\ \A e \in SupportedSuffixes :
              IsSuffixed(size, e) =>
                  sizeOut = Return(IntMul(int(DropLast(size, Len(e.suffix))).value, e.mult))
        /\ int(size).ok => sizeOut = Return(int(size).value)

\* "9kI", a binary suffix in mixed case, has been converted to 9 * 1024
C1_Witness ==
    /\ size = <<"9", "k", "I">>
    /\ sizeOut = Return(Dec(<<"9", "2", "1", "6">>))

\* C2: every input that is neither a plain integer nor an integer followed
\* by a supported suffix raises the RuntimeError "is not a valid memory
\* specification" and returns no value.
C2_InvalidRaisesRuntimeError ==
    ( /\ sizeOut # NotCalled
      /\ ~int(size).ok
      /\ \A e \in SupportedSuffixes : ~IsSuffixed(size, e) )
    => sizeOut = Raise("RuntimeError")

----------------------------------------------------------------------------
(* Claims about resolve_image_name *)

\* the image stream a slash-free name refers to, and the tag it requests
StreamOf(n)     == split1(n, ":")[1]
RequestedTag(n) == IF Contains(n, ":") THEN split1(n, ":")[2] ELSE latest

\* C3: when the lookup fails with status 403 or 404 the input name is
\* returned and nothing is raised; a failure with any other status is
\* propagated and no name is returned.
C3_ApiErrorHandling ==
    (resolveOut # NameNotCalled /\ apiLog # << >> /\ ~apiLog[1].response.ok) =>
        IF apiLog[1].response.status \in {403, 404}
        THEN resolveOut = ReturnName(name)
        ELSE resolveOut = RaiseApi(apiLog[1].response.status)

\* the lookup of an existing stream was forbidden and the name came back
C3_Witness ==
    /\ apiLog # << >>
    /\ apiLog[1].response.status = 403
    /\ apiLog[1].key.type = "str" /\ apiLog[1].key.val[1] \in DOMAIN streams
    /\ resolveOut = ReturnName(name)

\* C4: for a slash-free name whose image stream exists the result is
\* '<dockerImageRepository>:<tag>' if and only if the stream has an entry
\* with the requested tag and a non-empty repository, and the input name
\* otherwise; a name with a slash is returned unchanged without any lookup.
C4_ResolvedIffTagged ==
    resolveOut # NameNotCalled =>
        /\ IsQualified(name) => (resolveOut = ReturnName(name) /\ apiLog = << >>)
        /\ ( /\ ~IsQualified(name)
             /\ StreamOf(name) \in DOMAIN streams
             /\ apiLog # << >>
             /\ apiLog[1].response.status \notin {403, 500} )
           => resolveOut =
                 IF /\ \E i \in 1..Len(streams[StreamOf(name)].tags) :
                          streams[StreamOf(name)].tags[i] = RequestedTag(name)
                    /\ streams[StreamOf(name)].dockerImageRepository # << >>
                 THEN ReturnName(streams[StreamOf(name)].dockerImageRepository
                                 \o <<":">> \o RequestedTag(name))
                 ELSE ReturnName(name)

\* C8: a slash-free name without a tag looks up the image stream named by
\* the input string itself, the very value 'name:latest' looks up, and
\* matches the tag 'latest'.
C8_UntaggedLooksUpName ==
    (resolveOut # NameNotCalled /\ ~IsQualified(name) /\ ~Contains(name, ":")) =>
        /\ apiLog # << >>
        /\ apiLog[1].key = StrValue(name)
        /\ apiLog[1].key = source_image(split1(name \o <<":">> \o latest, ":"))
        /\ tag(split1(name, ":")) = latest

----------------------------------------------------------------------------
(* Claims about the patches *)

\* the target the patch looked at
SeenTarget ==
    IF call.fn = "add_route" THEN call.target
    ELSE IF "JUPYTERHUB_API_URL" \in DOMAIN call.env THEN call.env["JUPYTERHUB_API_URL"]
    ELSE << >>

\* the target the patch handed on
PassedTarget ==
    IF passed.fn = "add_route" THEN passed.target
    ELSE IF "JUPYTERHUB_API_URL" \in DOMAIN passed.env THEN passed.env["JUPYTERHUB_API_URL"]
    ELSE << >>

\* C5: when the target does not start with 'http://<hub_connect_ip>:<hub_port>'
\* add_route is called with the identical arguments and get_env returns the
\* environment unchanged, also without JUPYTERHUB_API_URL or with an empty
\* one; in every case routespec, data, the extra arguments and every other
\* environment key are unchanged.
C5_RewriteOnlyOnPrefix ==
    call # NoCall =>
        /\ ~startswith(SeenTarget, old(c)) => passed = call
        /\ passed.fn = call.fn
        /\ passed.routespec = call.routespec
        /\ passed.data = call.data
        /\ passed.args = call.args
        /\ DOMAIN passed.env = DOMAIN call.env
        /\ \A k \in DOMAIN call.env \ {"JUPYTERHUB_API_URL"} : passed.env[k] = call.env[k]

\* a target holding the hub address after a slash went through get_env as it was
C5_Witness ==
    /\ call.fn = "get_env"
    /\ "JUPYTERHUB_API_URL" \in DOMAIN call.env
    /\ call.env["JUPYTERHUB_API_URL"] = <<"/">> \o old(c)
    /\ passed = call

\* C6: when the target starts with the hub address the rewritten target is
\* 'http://127.0.0.1:<hub_port>' followed by the rest of the target after
\* that prefix: a later occurrence of the hub address is left as it was.
C6_OnlyLeadingAddressReplaced ==
    (call # NoCall /\ startswith(SeenTarget, old(c))) =>
        PassedTarget = new(c) \o DropFirst(SeenTarget, Len(old(c)))

----------------------------------------------------------------------------
(* Claims about the run of the script *)

SpawnerEnvironment ==
    IF "Spawner.environment" \in DOMAIN c THEN c["Spawner.environment"] ELSE << >>

\* the listing of the routes has been received
RoutesListed ==
    \/ pc \in {"cluster_subdomain", "tool_versions", "load_config",
               "load_environ_config", "done"}
    \/ pc = "aborted" /\ error = [at |-> "route", exc |-> "RuntimeError"]

\* C7: when no route is named after the application, or that route has an
\* empty host, the script ends with the RuntimeError "Cannot calculate
\* external host name": JUPYTERHUB_ROUTE and CLUSTER_SUBDOMAIN are not set
\* and no configuration file is executed.  Whenever JUPYTERHUB_ROUTE is set
\* it is 'https://' followed by the host of the route named after the
\* application.
C7_NoHostnameAborts ==
    /\ ( /\ RoutesListed
         /\ ~\E i \in 1..Len(routes) :
                routes[i].name = application_name /\ routes[i].host # << >> )
       => /\ pc = "aborted"
          /\ error = [at |-> "route", exc |-> "RuntimeError"]
          /\ "JUPYTERHUB_ROUTE" \notin DOMAIN SpawnerEnvironment
          /\ "CLUSTER_SUBDOMAIN" \notin DOMAIN SpawnerEnvironment
          /\ probed = << >> /\ executed = << >>
    /\ "JUPYTERHUB_ROUTE" \in DOMAIN SpawnerEnvironment
       => \E i \in 1..Len(routes) :
             /\ routes[i].name = application_name
             /\ SpawnerEnvironment["JUPYTERHUB_ROUTE"] = https \o routes[i].host

\* the script ended on the second of two routes, the one of the application,
\* whose host is empty
C7_Witness ==
    /\ pc = "aborted"
    /\ error = [at |-> "route", exc |-> "RuntimeError"]
    /\ Len(routes) = 2
    /\ routes[2].name = application_name /\ routes[2].host = << >>
    /\ routes[1].host # << >>

\* the keys the script assigns before it loads the files
ScriptKeys ==
    {"JupyterHub.port", "JupyterHub.hub_ip", "JupyterHub.hub_port",
     "JupyterHub.hub_connect_ip", "ConfigurableHTTPProxy.api_url",
     "Spawner.start_timeout", "Spawner.http_timeout", "KubeSpawner.port",
     "KubeSpawner.common_labels", "KubeSpawner.uid", "KubeSpawner.fs_gid",
     "KubeSpawner.extra_annotations", "KubeSpawner.cmd",
     "KubeSpawner.pod_name_template", "JupyterHub.admin_access",
     "JupyterHub.db_url", "JupyterHub.authenticator_class",
     "JupyterHub.spawner_class", "KubeSpawner.image_spec", "Spawner.mem_limit",
     "JupyterHub.logo_file", "Spawner.environment", "JupyterHub.services",
     "KubeSpawner.init_containers", "KubeSpawner.extra_containers",
     "JupyterHub.extra_handlers"}

Exists(path) == path \in DOMAIN files

\* C9: the configuration files are executed only after every default of the
\* script is assigned, the file of the mode first and the file of the
\* environment second, so that the file of the environment overrides the
\* file of the mode, which overrides the defaults; a file that does not
\* exist is skipped and the other is still executed.
C9_ConfigFilesOrder ==
    /\ probed # << >> =>
          /\ pc \in {"load_environ_config", "done"}
          /\ ScriptKeys \subseteq DOMAIN defaults
          /\ {"JUPYTERHUB_ROUTE", "CLUSTER_SUBDOMAIN", "DEPLOYMENT_TYPE",
              "CONFIGURATION_TYPE"} \subseteq DOMAIN defaults["Spawner.environment"]
    /\ executed = SelectSeq(probed, Exists)
    /\ pc = "load_environ_config" => probed = <<config_file>>
    /\ pc = "done" =>
          /\ probed = <<config_file, environ_config_file>>
          /\ error = NoError
          /\ \A k \in DOMAIN c :
                c[k] = IF Exists(environ_config_file) /\ k \in DOMAIN files[environ_config_file]
                       THEN files[environ_config_file][k]
                       ELSE IF Exists(config_file) /\ k \in DOMAIN files[config_file]
                       THEN files[config_file][k]
                       ELSE defaults[k]

\* both files were executed: the memory limit is the one of the file of the
\* environment, the timeout the one of the file of the mode
C9_Witness ==
    /\ pc = "done"
    /\ executed = <<config_file, environ_config_file>>
    /\ files[config_file]["Spawner.mem_limit"] # files[environ_config_file]["Spawner.mem_limit"]
    /\ c["Spawner.mem_limit"] = files[environ_config_file]["Spawner.mem_limit"]
    /\ "Spawner.start_timeout" \notin DOMAIN files[environ_config_file]
    /\ c["Spawner.start_timeout"] = files[config_file]["Spawner.start_timeout"]
    /\ c["Spawner.start_timeout"] # defaults["Spawner.start_timeout"]

\* C10: when the loading of the configuration files is reached, mem_limit is
\* the conversion of WORKSHOP_MEMORY (536870912 for the default '512Mi')
\* whatever JUPYTERHUB_NOTEBOOK_MEMORY is, which can only end the run, when
\* it is no valid size; image_spec is the resolution of TERMINAL_IMAGE, or
\* of '<application_name>:latest'.
C10_WorkshopSettingsWin ==
    /\ pc = "load_config" =>
          /\ c["Spawner.mem_limit"] =
                convert_size_to_bytes(Get("WORKSHOP_MEMORY", default_memory)).value
          /\ "WORKSHOP_MEMORY" \notin DOMAIN environ =>
                c["Spawner.mem_limit"] = Dec(<<"5","3","6","8","7","0","9","1","2">>)
          /\ c["KubeSpawner.image_spec"] =
                LET image == IF IsSet("TERMINAL_IMAGE") THEN environ["TERMINAL_IMAGE"]
                             ELSE application_name \o <<":">> \o latest
                IN  resolve_image_name(image, apiLog[Len(apiLog)].response).value
    /\ (pc = "aborted" /\ error.at = "notebook_memory") =>
          /\ IsSet("JUPYTERHUB_NOTEBOOK_MEMORY")
          /\ convert_size_to_bytes(environ["JUPYTERHUB_NOTEBOOK_MEMORY"]).kind = "raise"

\* the loading is reached with JUPYTERHUB_NOTEBOOK_MEMORY = '1Gi' and the
\* default WORKSHOP_MEMORY, the notebook image another than the terminal's
C10_Witness ==
    /\ pc = "load_config"
    /\ IsSet("JUPYTERHUB_NOTEBOOK_MEMORY")
    /\ environ["JUPYTERHUB_NOTEBOOK_MEMORY"] = <<"1","G","i">>
    /\ "WORKSHOP_MEMORY" \notin DOMAIN environ
    /\ c["Spawner.mem_limit"] = Dec(<<"5","3","6","8","7","0","9","1","2">>)
    /\ IsSet("TERMINAL_IMAGE") /\ IsSet("JUPYTERHUB_NOTEBOOK_IMAGE")
    /\ c["KubeSpawner.image_spec"] = environ["TERMINAL_IMAGE"]

====
